---- MODULE Spec2Model ----
(***************************************************************************)
(* abireport-rs: ABI capture of ELF binaries.                              *)
(*                                                                         *)
(* main (src/src/main.rs) walks its command-line arguments and calls       *)
(* parse_elf on each one; parse_elf (src/src/lib.rs) reads the file, asks  *)
(* the elf crate for the common sections and builds an AbiCapture from the *)
(* dynamic symbol table (.dynsym) and the dynamic section (.dynamic).      *)
(* main.rs carries its own copy of parse_elf and of the two section        *)
(* functions; the copies differ from lib.rs only in that the record of     *)
(* main.rs has no elf_kind field.  The model follows lib.rs.               *)
(*                                                                         *)
(* Strings are sequences of byte codes, a string table is the byte         *)
(* sequence of the section (NUL-terminated strings), an Option is a        *)
(* sequence of length 0 (None) or 1 (Some).                                *)
(***************************************************************************)
EXTENDS Integers, Sequences, FiniteSets, TLC

VARIABLES remaining, file, abi_info, ignored, status

vars == <<remaining, file, abi_info, ignored, status>>

-----------------------------------------------------------------------------
(* Bounds of the model *)

\* number of command-line arguments of one run
MaxFiles == 2
\* entries in one dynamic symbol table
MaxSyms == 3
\* entries in one dynamic section
MaxDyn == 3

-----------------------------------------------------------------------------
(* Option<T> *)

None == <<>>
Some(x) == <<x>>
IsSome(o) == o # <<>>
Unwrap(o) == o[1]

-----------------------------------------------------------------------------
(* ELF constants used by the program *)

DT_NEEDED == 1
DT_SONAME == 14
DT_RPATH == 15
DT_RUNPATH == 29
\* a tag the scan does not look at
DT_STRTAB == 5

SHN_UNDEF == 0

\* e_type of the ELF header
ET_REL == "ET_REL"
ET_EXEC == "ET_EXEC"
ET_DYN == "ET_DYN"
ET_CORE == "ET_CORE"

-----------------------------------------------------------------------------
(* String tables: bytes of the section, strings end at a NUL byte *)

\* "\0a2\0a10\0lib2.so\0lib10.so\0"
\*  offsets: 0 "", 1 "a2", 4 "a10", 8 "lib2.so", 16 "lib10.so"
StrTabA == <<0, 97,50, 0, 97,49,48, 0,
             108,105,98,50,46,115,111, 0,
             108,105,98,49,48,46,115,111, 0>>

\* "\0x9\0x10\0lib3.so\0lib20.so\0", same layout, other strings
StrTabB == <<0, 120,57, 0, 120,49,48, 0,
             108,105,98,51,46,115,111, 0,
             108,105,98,50,48,46,115,111, 0>>

RECURSIVE NulAt(_, _)
\* position (1-based) of the first NUL at or after position p, 0 if none
NulAt(tab, p) ==
    IF p > Len(tab) THEN 0
    ELSE IF tab[p] = 0 THEN p
    ELSE NulAt(tab, p + 1)

\* StringTable::get(offset): the string that starts at the byte offset,
\* an error when the offset is outside the table or no NUL follows
StrtabGet(tab, offset) ==
    IF offset >= Len(tab) THEN None
    ELSE LET e == NulAt(tab, offset + 1)
         IN  IF e = 0 THEN None ELSE Some(SubSeq(tab, offset + 1, e - 1))

-----------------------------------------------------------------------------
(* Natural order of strings *)

IsDigit(c) == c \in 48..57

RECURSIVE DigitRunLen(_)
DigitRunLen(s) ==
    IF s = <<>> THEN 0
    ELSE IF IsDigit(Head(s)) THEN 1 + DigitRunLen(Tail(s))
    ELSE 0

RECURSIVE DigitValue(_, _)
\* numeric value of the first n characters of s (all digits)
DigitValue(s, n) ==
    IF n = 0 THEN 0 ELSE DigitValue(s, n - 1) * 10 + (s[n] - 48)

RECURSIVE natural_cmp(_, _)
\* -1 Less, 0 Equal, 1 Greater: byte-wise comparison, except that two digit
\* runs met at the same point compare by their numeric value
natural_cmp(a, b) ==
    IF a = <<>> /\ b = <<>> THEN 0
    ELSE IF a = <<>> THEN -1
    ELSE IF b = <<>> THEN 1
    ELSE IF IsDigit(Head(a)) /\ IsDigit(Head(b))
         THEN LET la == DigitRunLen(a)
                  lb == DigitRunLen(b)
                  na == DigitValue(a, la)
                  nb == DigitValue(b, lb)
              IN  IF na < nb THEN -1
                  ELSE IF na > nb THEN 1
                  ELSE natural_cmp(SubSeq(a, la + 1, Len(a)),
                                   SubSeq(b, lb + 1, Len(b)))
    ELSE IF Head(a) < Head(b) THEN -1
    ELSE IF Head(a) > Head(b) THEN 1
    ELSE natural_cmp(Tail(a), Tail(b))

RECURSIVE InsertSorted(_, _)
\* x placed after every element that does not compare greater than it
InsertSorted(s, x) ==
    IF s = <<>> THEN <<x>>
    ELSE IF natural_cmp(Head(s), x) = 1 THEN <<x>> \o s
    ELSE <<Head(s)>> \o InsertSorted(Tail(s), x)

RECURSIVE StableSort(_, _)
StableSort(acc, s) ==
    IF s = <<>> THEN acc ELSE StableSort(InsertSorted(acc, Head(s)), Tail(s))

\* a forgotten sort: the list stays in table order
SortNaturalSkipped(s) == s

\* v.sort_by(|a, b| a.natural_cmp(b)): a stable sort
SortNatural(s) == StableSort(<<>>, s)

-----------------------------------------------------------------------------
(* Dynamic symbol table: parse_dynsyms_section *)

\* Symbol::is_undefined()
IsUndefined(sym) == sym.st_shndx = SHN_UNDEF

\* Symbol::st_vis(): the two low bits of st_other
StVis(sym) == sym.st_other % 4

Imported(sym) == IsUndefined(sym)

\* visibility not looked at: every defined symbol is exported
ExportedAnyVisibility(sym) == ~IsUndefined(sym)

Exported(sym) == ~IsUndefined(sym) /\ StVis(sym) = 0

\* one turn of the loop over the symbol table; ok turns FALSE when the
\* name offset does not resolve (unwrap of the lookup panics)
DynsymStep(acc, sym, strtab) ==
    IF ~acc.ok THEN acc
    ELSE LET ds == StrtabGet(strtab, sym.st_name)
         IN  IF ~IsSome(ds) THEN [acc EXCEPT !.ok = FALSE]
             ELSE IF Imported(sym)
                  THEN [acc EXCEPT !.abi_imports = Append(@, Unwrap(ds))]
             ELSE IF Exported(sym)
                  THEN [acc EXCEPT !.abi_exports = Append(@, Unwrap(ds))]
             ELSE [acc EXCEPT !.ignoring = Append(@, Unwrap(ds))]

RECURSIVE DynsymLoop(_, _, _)
DynsymLoop(acc, dynsyms, strtab) ==
    IF dynsyms = <<>> THEN acc
    ELSE DynsymLoop(DynsymStep(acc, Head(dynsyms), strtab), Tail(dynsyms), strtab)

\* ok = FALSE: the function panicked (a section is missing, or a name does
\* not resolve); ignoring: the "Ignoring ..." lines printed on the way
parse_dynsyms_section(f) ==
    IF ~IsSome(f.dynsyms) \/ ~IsSome(f.dynsyms_strs)
    THEN [ok |-> FALSE, abi_imports |-> <<>>, abi_exports |-> <<>>, ignoring |-> <<>>]
    ELSE LET r == DynsymLoop([ok |-> TRUE, abi_imports |-> <<>>,
                              abi_exports |-> <<>>, ignoring |-> <<>>],
                             Unwrap(f.dynsyms), Unwrap(f.dynsyms_strs))
         IN  [r EXCEPT !.abi_imports = SortNatural(@),
                       !.abi_exports = SortNatural(@)]

-----------------------------------------------------------------------------
(* Dynamic section: parse_dynamic_section *)

\* the first DT_RPATH, DT_RUNPATH, DT_SONAME is kept, later ones are dropped
ScanEntryFirstWins(acc, entry, strs) ==
    IF ~acc.ok THEN acc
    ELSE IF entry.d_tag \in {DT_NEEDED, DT_RPATH, DT_RUNPATH, DT_SONAME}
    THEN LET v == StrtabGet(strs, entry.d_val)
         IN  IF ~IsSome(v) THEN [acc EXCEPT !.ok = FALSE]
             ELSE IF entry.d_tag = DT_NEEDED
                  THEN [acc EXCEPT !.dt_needed = Append(@, Unwrap(v))]
             ELSE IF entry.d_tag = DT_RPATH
                  THEN [acc EXCEPT !.dt_rpath = IF IsSome(@) THEN @ ELSE v]
             ELSE IF entry.d_tag = DT_RUNPATH
                  THEN [acc EXCEPT !.dt_runpath = IF IsSome(@) THEN @ ELSE v]
             ELSE [acc EXCEPT !.dt_soname = IF IsSome(@) THEN @ ELSE v]
    ELSE acc

\* the default arm pushes as well: every tag is taken for DT_NEEDED
ScanEntryNoDefaultArm(acc, entry, strs) ==
    IF ~acc.ok THEN acc
    ELSE LET v == StrtabGet(strs, entry.d_val)
         IN  IF ~IsSome(v) THEN [acc EXCEPT !.ok = FALSE]
             ELSE IF entry.d_tag = DT_RPATH
                  THEN [acc EXCEPT !.dt_rpath = v]
             ELSE IF entry.d_tag = DT_RUNPATH
                  THEN [acc EXCEPT !.dt_runpath = v]
             ELSE IF entry.d_tag = DT_SONAME
                  THEN [acc EXCEPT !.dt_soname = v]
             ELSE [acc EXCEPT !.dt_needed = Append(@, Unwrap(v))]

\* one arm of the match on entry.d_tag; the value is looked up only in the
\* four arms that use it
ScanEntry(acc, entry, strs) ==
    IF ~acc.ok THEN acc
    ELSE IF entry.d_tag \in {DT_NEEDED, DT_RPATH, DT_RUNPATH, DT_SONAME}
    THEN LET v == StrtabGet(strs, entry.d_val)
         IN  IF ~IsSome(v) THEN [acc EXCEPT !.ok = FALSE]
             ELSE IF entry.d_tag = DT_NEEDED
                  THEN [acc EXCEPT !.dt_needed = Append(@, Unwrap(v))]
             ELSE IF entry.d_tag = DT_RPATH
                  THEN [acc EXCEPT !.dt_rpath = v]
             ELSE IF entry.d_tag = DT_RUNPATH
                  THEN [acc EXCEPT !.dt_runpath = v]
             ELSE [acc EXCEPT !.dt_soname = v]
    ELSE acc

RECURSIVE ScanLoop(_, _, _)
ScanLoop(acc, dynamic, strs) ==
    IF dynamic = <<>> THEN acc
    ELSE ScanLoop(ScanEntry(acc, Head(dynamic), strs), Tail(dynamic), strs)

\* the table the scan resolves string values in: common_elf_data.dynsyms_strs,
\* the string table of the dynamic symbol table
ScanStrtab(f) == f.dynsyms_strs

parse_dynamic_section(f) ==
    LET dflt == [ok |-> TRUE, dt_needed |-> <<>>, dt_rpath |-> None,
                 dt_runpath |-> None, dt_soname |-> None]
    IN  IF IsSome(f.dynamic) /\ IsSome(ScanStrtab(f))
        THEN LET r == ScanLoop(dflt, Unwrap(f.dynamic), Unwrap(ScanStrtab(f)))
             IN  [r EXCEPT !.dt_needed = SortNatural(@)]
        ELSE dflt

-----------------------------------------------------------------------------
(* parse_elf *)

\* "Not implemented"
NotImplemented == <<78,111,116,32,105,109,112,108,101,109,101,110,116,101,100>>

\* the name of the argument that has k arguments after it: "f" and the digit k
FileName(k) == <<102, 48 + k>>

\* where parse_elf stops: "ok" when it returns a capture, else the call
\* that panics
Outcome(f) ==
    IF ~f.readable THEN "read"
    ELSE IF ~f.valid_elf THEN "minimal_parse"
    ELSE IF ~f.shdrs_ok THEN "find_common_data"
    ELSE IF ~IsSome(f.dynsyms) \/ ~IsSome(f.dynsyms_strs) THEN "dynsyms_unwrap"
    ELSE IF ~parse_dynsyms_section(f).ok THEN "strtab_unwrap"
    ELSE IF ~parse_dynamic_section(f).ok THEN "strtab_unwrap"
    ELSE "ok"

\* the capture parse_elf returns in Ok(..), for a file with Outcome "ok"
parse_elf(f, file_name) ==
    LET ds == parse_dynsyms_section(f)
        dt == parse_dynamic_section(f)
    IN  [elf_kind |-> "Unknown",
         filename |-> file_name,
         dynsym_imports |-> ds.abi_imports,
         dynsym_exports |-> ds.abi_exports,
         manual_deps |-> <<NotImplemented>>,
         needed_deps |-> dt.dt_needed,
         optional_deps |-> <<NotImplemented>>,
         rpath |-> dt.dt_rpath,
         runpath |-> dt.dt_runpath,
         soname |-> dt.dt_soname]

\* the "Ignoring ..." lines on stdout by the time parse_elf returns or panics
Ignoring(f) ==
    IF f.readable /\ f.valid_elf /\ f.shdrs_ok
    THEN parse_dynsyms_section(f).ignoring
    ELSE <<>>

-----------------------------------------------------------------------------
(* Input files *)

SeqsUpTo(S, n) == UNION {[1..k -> S] : k \in 0..n}

\* offsets of "a2", "a10" in either table
SymNameOffsets == {1, 4}
\* offsets of the two library names in either table
DynValOffsets == {8, 16}
\* an offset past the end of either table
BadOffset == Len(StrTabA)

\* undefined or defined, visibility STV_DEFAULT or STV_HIDDEN; and an
\* undefined hidden entry whose name is the empty string (offset 0)
SymEntries ==
    [st_name : SymNameOffsets, st_shndx : {SHN_UNDEF, 1}, st_other : {0, 2}]
    \cup {[st_name |-> 0, st_shndx |-> SHN_UNDEF, st_other |-> 2]}

\* the four tags the scan reads, and one it does not
DynEntries ==
    [d_tag : {DT_NEEDED, DT_RPATH, DT_RUNPATH, DT_SONAME}, d_val : DynValOffsets]
    \cup {[d_tag |-> DT_STRTAB, d_val |-> 8]}

OneSym == <<[st_name |-> 1, st_shndx |-> SHN_UNDEF, st_other |-> 0]>>
OneNeeded == <<[d_tag |-> DT_NEEDED, d_val |-> 8]>>

ElfFile(t, syms, symstrs, dyn, dynstrs) ==
    [readable |-> TRUE, valid_elf |-> TRUE, shdrs_ok |-> TRUE, e_type |-> t,
     dynsyms |-> syms, dynsyms_strs |-> symstrs,
     dynamic |-> dyn, dynamic_strs |-> dynstrs]

\* files parse_elf cannot get the common sections of
BrokenFiles ==
    { [ElfFile(ET_DYN, None, None, None, None)
         EXCEPT !.readable = b[1], !.valid_elf = b[2], !.shdrs_ok = b[3]] :
      b \in {<<FALSE, FALSE, FALSE>>, <<TRUE, FALSE, FALSE>>, <<TRUE, TRUE, FALSE>>} }

\* ELF files without a dynamic symbol table (static binaries, objects, cores)
StaticFiles ==
    { ElfFile(t, None, None, d, None) :
      t \in {ET_REL, ET_EXEC, ET_DYN, ET_CORE},
      d \in {None, Some(OneNeeded)} }

\* every symbol table up to MaxSyms entries
SymFiles ==
    { ElfFile(ET_DYN, Some(syms), Some(StrTabA), Some(OneNeeded), Some(StrTabA)) :
      syms \in SeqsUpTo(SymEntries, MaxSyms) }

\* a dynamic symbol table of one entry and no dynamic section; every
\* visibility, and a bit of st_other outside the visibility
OtherFiles ==
    { ElfFile(t, Some(<<s>>), Some(StrTabB), None, None) :
      t \in {ET_REL, ET_EXEC, ET_DYN, ET_CORE},
      s \in [st_name : {0, 4}, st_shndx : {SHN_UNDEF, 1}, st_other : {0, 1, 3, 4}] }

\* every dynamic section up to MaxDyn entries; .dynsym and .dynamic link to
\* the same string table
DynFiles ==
    { ElfFile(ET_EXEC, Some(OneSym), Some(StrTabA), Some(dyn), Some(StrTabA)) :
      dyn \in SeqsUpTo(DynEntries, MaxDyn) }

\* .dynsym and .dynamic link to different string tables
SplitStrtabFiles ==
    { ElfFile(ET_DYN, Some(OneSym), Some(ss), Some(<<e>>), Some(dstr)) :
      ss \in {StrTabA, StrTabB},
      dstr \in {StrTabA, StrTabB},
      e \in DynEntries }

\* a name offset or a value offset that resolves in no table
BadOffsetFiles ==
    { ElfFile(ET_DYN, Some(syms), Some(StrTabA), Some(dyn), Some(StrTabA)) :
      syms \in SeqsUpTo([st_name : {1, BadOffset}, st_shndx : {1}, st_other : {2}], 2),
      dyn \in SeqsUpTo([d_tag : {DT_NEEDED, DT_STRTAB}, d_val : {8, BadOffset}], 2) }

Files ==
    BrokenFiles \cup StaticFiles \cup SymFiles \cup OtherFiles \cup DynFiles
    \cup SplitStrtabFiles \cup BadOffsetFiles

-----------------------------------------------------------------------------
(* main: the loop over the arguments *)

Init ==
    /\ remaining \in 0..MaxFiles
    /\ file = None
    /\ abi_info = None
    /\ ignored = <<>>
    /\ status = "running"

\* every argument with the point where parse_elf stops on it
FileOutcomes == {<<f, Outcome(f)>> : f \in Files}

\* the arguments by the point where parse_elf stops on them
FilesBy ==
    [cause \in {"ok", "read", "minimal_parse", "find_common_data",
                "dynsyms_unwrap", "strtab_unwrap"} |->
        {p[1] : p \in {q \in FileOutcomes : q[2] = cause}}]

\* the loop has an argument left to take
LoopBody == status = "running" /\ file = None /\ remaining > 0

\* parse_elf panics on f: the process ends, nothing is printed for f
Panic(f) ==
    /\ remaining' = remaining - 1
    /\ file' = Some(f)
    /\ ignored' = Ignoring(f)
    /\ abi_info' = None
    /\ status' = "panicked"

\* parse_elf returns Ok(capture), main prints it
ProcessFile ==
    /\ LoopBody
    /\ \E f \in FilesBy["ok"] :
        /\ remaining' = remaining - 1
        /\ file' = Some(f)
        /\ ignored' = Ignoring(f)
        /\ abi_info' = Some(parse_elf(f, FileName(remaining - 1)))
        /\ UNCHANGED status

\* std::fs::read(..).expect(..) panics
PanicRead ==
    /\ LoopBody
    /\ \E f \in FilesBy["read"] : Panic(f)

\* minimal_parse(..).expect(..) panics
PanicMinimalParse ==
    /\ LoopBody
    /\ \E f \in FilesBy["minimal_parse"] : Panic(f)

\* find_common_data().expect(..) panics
PanicCommonData ==
    /\ LoopBody
    /\ \E f \in FilesBy["find_common_data"] : Panic(f)

\* dynsyms.as_ref().unwrap() panics: no dynamic symbol table
PanicNoDynsyms ==
    /\ LoopBody
    /\ \E f \in FilesBy["dynsyms_unwrap"] : Panic(f)

\* strtab.get(..).unwrap() panics: an offset does not resolve
PanicStrtab ==
    /\ LoopBody
    /\ \E f \in FilesBy["strtab_unwrap"] : Panic(f)

\* the end of the loop body: abi_info goes out of scope
NextIteration ==
    /\ status = "running"
    /\ file # None
    /\ file' = None
    /\ abi_info' = None
    /\ ignored' = <<>>
    /\ UNCHANGED <<remaining, status>>

\* the loop is over, main returns
Finish ==
    /\ status = "running"
    /\ file = None
    /\ remaining = 0
    /\ status' = "done"
    /\ UNCHANGED <<remaining, file, abi_info, ignored>>

Next ==
    \/ ProcessFile
    \/ PanicRead
    \/ PanicMinimalParse
    \/ PanicCommonData
    \/ PanicNoDynsyms
    \/ PanicStrtab
    \/ NextIteration
    \/ Finish

Spec == Init /\ [][Next]_vars

-----------------------------------------------------------------------------
(* Vocabulary of the properties *)

Range(s) == {s[i] : i \in DOMAIN s}

\* how many times x occurs in s
Count(s, x) == Cardinality({i \in DOMAIN s : s[i] = x})

SameMultiset(s, t) ==
    \A x \in Range(s) \cup Range(t) : Count(s, x) = Count(t, x)

\* no adjacent pair compares Greater
NaturallySorted(s) ==
    \A i \in 1..(Len(s) - 1) : natural_cmp(s[i], s[i + 1]) # 1

\* the file just handled, its sections, the capture just printed
TheFile == Unwrap(file)
TheCapture == Unwrap(abi_info)
TheSyms == Unwrap(TheFile.dynsyms)
TheDynamic == IF IsSome(TheFile.dynamic) THEN Unwrap(TheFile.dynamic) ELSE <<>>

IsUndef(sym) == sym.st_shndx = 0
IsDefaultVis(sym) == sym.st_other % 4 = 0
IsDefinedDefault(sym) == ~IsUndef(sym) /\ IsDefaultVis(sym)
IsDefinedRestricted(sym) == ~IsUndef(sym) /\ ~IsDefaultVis(sym)

\* the names of a list of symbol entries, in the order of the list
SymNames(entries) ==
    [i \in 1..Len(entries) |->
        Unwrap(StrtabGet(Unwrap(TheFile.dynsyms_strs), entries[i].st_name))]

\* the entries of the dynamic section with tag t, in section order
WithTag(t) == SelectSeq(TheDynamic, LAMBDA e : e.d_tag = t)

\* the strings the scan resolves a list of dynamic entries to
ScanStrings(entries) ==
    [i \in 1..Len(entries) |->
        Unwrap(StrtabGet(Unwrap(ScanStrtab(TheFile)), entries[i].d_val))]

StrA2 == <<97, 50>>
StrA10 == <<97, 49, 48>>
StrLib2 == <<108, 105, 98, 50, 46, 115, 111>>
StrLib10 == <<108, 105, 98, 49, 48, 46, 115, 111>>

-----------------------------------------------------------------------------
(* Properties *)

\* C1: every entry of the dynamic symbol table has exactly one outcome:
\* imported if it is undefined (whatever its visibility or name), exported if
\* it is defined with default visibility, ignored if it is defined with
\* another visibility; the imports are as many as the undefined entries, the
\* exports as many as the defined default-visibility entries, the ignored
\* entries are exactly the "Ignoring" lines, and the three add up to the table.
C1_ClassificationPartitions ==
    IsSome(abi_info) =>
        /\ Len(TheCapture.dynsym_imports) = Len(SelectSeq(TheSyms, IsUndef))
        /\ Len(TheCapture.dynsym_exports) = Len(SelectSeq(TheSyms, IsDefinedDefault))
        /\ ignored = SymNames(SelectSeq(TheSyms, IsDefinedRestricted))
        /\ Len(TheCapture.dynsym_imports) + Len(TheCapture.dynsym_exports)
             + Len(ignored) = Len(TheSyms)

\* a table with an undefined hidden entry of empty name, an exported entry
\* and an ignored entry
C1_Witness ==
    /\ IsSome(abi_info)
    /\ Len(TheSyms) = 3
    /\ \E i \in DOMAIN TheSyms :
          IsUndef(TheSyms[i]) /\ TheSyms[i].st_name = 0 /\ ~IsDefaultVis(TheSyms[i])
    /\ TheCapture.dynsym_imports = << <<>> >>
    /\ Len(TheCapture.dynsym_exports) = 1
    /\ Len(ignored) = 1

\* C2: the imports are the names of the undefined entries and the exports the
\* names of the defined default-visibility entries, as multisets (nothing
\* dropped, added or deduplicated), each in non-decreasing natural order.
C2_SortedMultisets ==
    IsSome(abi_info) =>
        /\ SameMultiset(TheCapture.dynsym_imports, SymNames(SelectSeq(TheSyms, IsUndef)))
        /\ SameMultiset(TheCapture.dynsym_exports,
                        SymNames(SelectSeq(TheSyms, IsDefinedDefault)))
        /\ NaturallySorted(TheCapture.dynsym_imports)
        /\ NaturallySorted(TheCapture.dynsym_exports)

\* the table lists a10, a2, a10 as undefined: the imports are a2, a10, a10
C2_Witness ==
    /\ IsSome(abi_info)
    /\ SymNames(TheSyms) = <<StrA10, StrA2, StrA10>>
    /\ TheCapture.dynsym_imports = <<StrA2, StrA10, StrA10>>

\* C3: an ELF file without a dynamic symbol table or without a dynamic
\* section is captured, not crashed on, and its capture has empty imports,
\* exports and needed_deps and no soname, rpath, runpath.
C3_StaticBinaryYieldsEmptyCapture ==
    (/\ IsSome(file)
     /\ TheFile.readable /\ TheFile.valid_elf /\ TheFile.shdrs_ok
     /\ (~IsSome(TheFile.dynsyms) \/ ~IsSome(TheFile.dynamic)))
    => /\ status # "panicked"
       /\ IsSome(abi_info)
       /\ TheCapture.dynsym_imports = <<>>
       /\ TheCapture.dynsym_exports = <<>>
       /\ TheCapture.needed_deps = <<>>
       /\ TheCapture.soname = None
       /\ TheCapture.rpath = None
       /\ TheCapture.runpath = None

\* C4: a file that cannot be captured (unreadable, not ELF, an offset that
\* does not resolve) does not stop the run: the loop goes on to the files
\* after it.
C4_FailureDoesNotAbortBatch ==
    (IsSome(file) /\ Outcome(TheFile) # "ok") => status = "running"

\* C5: the strings of DT_NEEDED, DT_RPATH, DT_RUNPATH, DT_SONAME are those of
\* the string table of the dynamic section.
C5_ResolvedInDynamicStrtab ==
    (IsSome(abi_info) /\ IsSome(TheFile.dynamic)) =>
        LET InDynStr(tag, str) ==
                \E i \in DOMAIN TheDynamic :
                    /\ TheDynamic[i].d_tag = tag
                    /\ StrtabGet(Unwrap(TheFile.dynamic_strs), TheDynamic[i].d_val)
                         = Some(str)
        IN  /\ \A n \in Range(TheCapture.needed_deps) : InDynStr(DT_NEEDED, n)
            /\ \A n \in Range(TheCapture.rpath) : InDynStr(DT_RPATH, n)
            /\ \A n \in Range(TheCapture.runpath) : InDynStr(DT_RUNPATH, n)
            /\ \A n \in Range(TheCapture.soname) : InDynStr(DT_SONAME, n)

\* C6: optional_deps and manual_deps of every capture are empty.
C6_PlaceholdersEmpty ==
    IsSome(abi_info) =>
        TheCapture.optional_deps = <<>> /\ TheCapture.manual_deps = <<>>

\* C7: the kind of the capture follows the file type of the ELF header:
\* Executable for ET_EXEC, SharedObject for ET_DYN, Unknown for anything else.
C7_KindFromHeader ==
    IsSome(abi_info) =>
        TheCapture.elf_kind =
            IF TheFile.e_type = ET_EXEC THEN "Executable"
            ELSE IF TheFile.e_type = ET_DYN THEN "SharedObject"
            ELSE "Unknown"

\* C9: needed_deps has one element per DT_NEEDED entry (duplicates kept), the
\* strings the scan resolves them to, in natural order whatever the order of
\* the section; an entry with another tag than DT_NEEDED, DT_RPATH,
\* DT_RUNPATH, DT_SONAME changes nothing: the section without these entries
\* gives the same needed_deps, rpath, runpath, soname.
C9_NeededDepsAndFrame ==
    IsSome(abi_info) =>
        /\ Len(TheCapture.needed_deps) = Len(WithTag(DT_NEEDED))
        /\ SameMultiset(TheCapture.needed_deps, ScanStrings(WithTag(DT_NEEDED)))
        /\ NaturallySorted(TheCapture.needed_deps)
        /\ IsSome(TheFile.dynamic) =>
             LET known == SelectSeq(TheDynamic, LAMBDA e :
                              e.d_tag \in {DT_NEEDED, DT_RPATH, DT_RUNPATH, DT_SONAME})
                 r == parse_dynamic_section([TheFile EXCEPT !.dynamic = Some(known)])
             IN  /\ r.dt_needed = TheCapture.needed_deps
                 /\ r.dt_rpath = TheCapture.rpath
                 /\ r.dt_runpath = TheCapture.runpath
                 /\ r.dt_soname = TheCapture.soname

\* the section lists lib10.so, another tag, lib2.so: needed_deps is
\* lib2.so, lib10.so
C9_Witness ==
    /\ IsSome(abi_info)
    /\ Len(TheDynamic) = 3
    /\ TheDynamic[1] = [d_tag |-> DT_NEEDED, d_val |-> 16]
    /\ TheDynamic[2].d_tag = DT_STRTAB
    /\ TheDynamic[3] = [d_tag |-> DT_NEEDED, d_val |-> 8]
    /\ TheCapture.needed_deps = <<StrLib2, StrLib10>>

\* C10: rpath, runpath and soname are the string of the last DT_RPATH,
\* DT_RUNPATH and DT_SONAME entry in section order (the string the scan
\* resolves its value to), and absent exactly when the section has no entry
\* with that tag.
C10_LastOccurrenceWins ==
    IsSome(abi_info) =>
        LET LastOf(tag) ==
                LET es == WithTag(tag)
                IN  IF es = <<>> THEN None
                    ELSE Some(ScanStrings(es)[Len(es)])
        IN  /\ TheCapture.rpath = LastOf(DT_RPATH)
            /\ TheCapture.runpath = LastOf(DT_RUNPATH)
            /\ TheCapture.soname = LastOf(DT_SONAME)

\* two DT_RPATH entries with different strings and no DT_SONAME: rpath is
\* the second string, soname is absent
C10_Witness ==
    /\ IsSome(abi_info)
    /\ Len(WithTag(DT_RPATH)) = 2
    /\ WithTag(DT_RPATH)[1].d_val = 16
    /\ WithTag(DT_RPATH)[2].d_val = 8
    /\ TheCapture.rpath = Some(StrLib2)
    /\ WithTag(DT_SONAME) = <<>>
    /\ TheCapture.soname = None

====
